---- MODULE Spec2Model ----
(***************************************************************************)
(* A model of the resilient-request-and-session layer of bluesky-cli:      *)
(*   - the retry engine        (lib/retry.ts,  src/unnamed/part_007)       *)
(*   - the error classifier    (lib/errors.ts, src/src/lib/config.ts:290+) *)
(*   - the credential store    (lib/config.ts, src/src/lib/config.ts:1+)   *)
(*   - the session lifecycle   (lib/auth.ts,   src/src/lib/auth.ts:175+)   *)
(*   - the entry point         (index.ts,      src/unnamed/part_006)       *)
(*   - the chat limiter        (lib/chat.ts,   src/src/lib/chat.ts)        *)
(*                                                                         *)
(* Conventions.  A JavaScript value that is absent (undefined) is modelled *)
(* by the falsy value of its type: "" for a string field, 0 for a number   *)
(* field, <<>> for a text.  The code tests all of these fields by          *)
(* truthiness (error.code && ..., error.status || error.statusCode,        *)
(* retryAfter ? ...), so the two are not distinguished by it either.  A    *)
(* message is a sequence of tokens; String.includes(marker) is membership  *)
(* of the marker among the tokens (no other token contains a marker).      *)
(***************************************************************************)
EXTENDS Integers, Sequences, FiniteSets, TLC

(***************************************************************************)
(* Bounds of the model.                                                    *)
(***************************************************************************)
\* The largest maxAttempts a direct caller of withRetry passes.
MaxAttempts == 3
\* The clock (new Date()) runs from 0 to MaxClock.
MaxClock == 1
\* Math.random() is drawn from { k / RandDen : k \in RandomSamples }.
RandDen == 4
RandomSamples == {0, RandDen - 1}
\* The retry observers that one command runs.
MaxObserved == 2
\* The calls one chat client makes.
MaxChatCalls == 32

(***************************************************************************)
(* Raw failures: the values an operation can throw.                        *)
(***************************************************************************)
\* The value parseInt yields for a text with no leading digit (NaN).
NaN == -1

Err(code, status, statusCode, retryAfter, message) ==
    [shape |-> "object", code |-> code, status |-> status,
     statusCode |-> statusCode, retryAfter |-> retryAfter, message |-> message]

\* throw null / throw undefined: every property read of it is a TypeError.
Nullish == [shape |-> "nullish", code |-> "", status |-> 0, statusCode |-> 0,
            retryAfter |-> <<>>, message |-> <<>>]

\* throw "text": a primitive, whose properties all read as undefined.
Primitive == [shape |-> "primitive", code |-> "", status |-> 0, statusCode |-> 0,
              retryAfter |-> <<>>, message |-> <<>>]

Includes(message, marker) == \E i \in DOMAIN message : message[i] = marker

\* The errors the operation of a direct withRetry call throws in this model:
\* one or more of every class the retry engine tells apart.
NetworkCodeErrors ==
    { Err(c, 0, 0, <<>>, <<"failed">>) : c \in {"ETIMEDOUT", "ECONNREFUSED", "ENOTFOUND"} }

ServerErrors == { Err("", 0, 503, <<>>, <<"Unavailable">>) }

RateLimitErrors ==
    { Err("", 429, 0, <<>>, <<"Too many requests">>),
      Err("", 429, 0, <<"2">>, <<"Too many requests">>),
      Err("", 0, 429, <<"1", "0">>, <<"Too many requests">>) }

MessageErrors == { Err("", 0, 0, <<>>, <<"socket hang up">>) }

PermanentErrors ==
    { Err("", 401, 0, <<>>, <<"Unauthorized">>),
      Err("", 400, 0, <<>>, <<"Bad request">>),
      Err("", 404, 0, <<>>, <<"Not found">>),
      Err("", 501, 0, <<>>, <<"Not implemented">>),
      Err("UNKNOWN_ERROR", 0, 0, <<>>, <<"Unknown error">>) }

\* An HTTP error status together with a transient-looking message.
MixedErrors == { Err("", 401, 0, <<>>, <<"upstream", "ETIMEDOUT">>) }

ThrownErrors ==
    NetworkCodeErrors \cup ServerErrors \cup RateLimitErrors \cup MessageErrors
        \cup PermanentErrors \cup MixedErrors \cup {Nullish, Primitive}

\* The values a successful operation of a direct withRetry call returns.
Value(data) == [shape |-> "value", data |-> data]

Results == { Value("success"), Value("other") }


(***************************************************************************)
(* The error classifier (lib/errors.ts).                                   *)
(***************************************************************************)
DigitChars == <<"0", "1", "2", "3", "4", "5", "6", "7", "8", "9">>

IsDigit(c) == \E d \in DOMAIN DigitChars : DigitChars[d] = c

DigitValue(c) == (CHOOSE d \in DOMAIN DigitChars : DigitChars[d] = c) - 1

\* The length of the longest prefix of text made of digits.
RECURSIVE DigitPrefix(_)
DigitPrefix(text) ==
    IF text = <<>> \/ ~IsDigit(Head(text)) THEN 0 ELSE 1 + DigitPrefix(Tail(text))

RECURSIVE DigitsToNumber(_, _)
DigitsToNumber(text, n) ==
    IF n = 0 THEN 0 ELSE 10 * DigitsToNumber(text, n - 1) + DigitValue(text[n])

\* parseInt(text, 10) of a text without sign or leading blanks: the number its
\* leading digits spell, NaN when it starts with none.
ParseInt(text) ==
    IF DigitPrefix(text) = 0 THEN NaN ELSE DigitsToNumber(text, DigitPrefix(text))

\* x * 1000 in IEEE arithmetic, where NaN * 1000 = NaN.
TimesThousand(x) == IF x = NaN THEN NaN ELSE x * 1000

\* The instance new <class>(message, {code, statusCode}) of a BskyError class;
\* retryAfter is <<>> when the property is undefined, <<ms>> otherwise.
Classified(class, message, code, statusCode, retryAfter) ==
    [class |-> class, message |-> message, code |-> code,
     statusCode |-> statusCode, retryAfter |-> retryAfter]

ClassifiedClasses ==
    {"BskyError", "AuthError", "NetworkError", "RateLimitError",
     "ValidationError", "NotFoundError"}

\* The TypeError the runtime raises for a property read of null or undefined:
\* a raw library exception, not an instance of BskyError.
TypeErrorValue ==
    [class |-> "TypeError", message |-> <<"Cannot read properties of undefined">>,
     code |-> "", statusCode |-> 0, retryAfter |-> <<>>]

IsClassified(x) == x.class \in ClassifiedClasses

\* error.message || fallback
MessageOr(message, fallback) == IF message = <<>> THEN fallback ELSE message

\* error.status || error.statusCode
StatusOf(error) == IF error.status # 0 THEN error.status ELSE error.statusCode

FromApiError(error) ==
    IF error.shape = "nullish" THEN TypeErrorValue
    ELSE IF error.code = "ENOTFOUND" \/ error.code = "EAI_AGAIN"
    THEN Classified("NetworkError", <<"DNS lookup failed">>, "DNS_LOOKUP_FAILED", 0, <<>>)
    ELSE IF error.code = "ECONNREFUSED"
    THEN Classified("NetworkError", <<"Connection refused">>, "CONNECTION_REFUSED", 0, <<>>)
    ELSE IF error.code = "ETIMEDOUT" \/ error.code = "ESOCKETTIMEDOUT"
    THEN Classified("NetworkError", <<"Request timed out">>, "TIMEOUT", 0, <<>>)
    ELSE IF error.code = "ECONNRESET" \/ Includes(error.message, "socket hang up")
    THEN Classified("NetworkError", <<"Connection lost">>, "SOCKET_HANG_UP", 0, <<>>)
    ELSE IF StatusOf(error) = 401
    THEN Classified("AuthError", <<"Unauthorized">>, "SESSION_EXPIRED", 401, <<>>)
    ELSE IF StatusOf(error) = 429
    THEN Classified("RateLimitError", <<"Too many requests">>, "RATE_LIMIT_EXCEEDED", 429,
                    IF error.retryAfter # <<>>
                    THEN <<TimesThousand(ParseInt(error.retryAfter))>> ELSE <<>>)
    ELSE IF StatusOf(error) = 404
    THEN Classified("NotFoundError", <<"Resource not found">>, "NOT_FOUND", 404, <<>>)
    ELSE IF StatusOf(error) = 400
    THEN Classified("ValidationError", MessageOr(error.message, <<"Invalid request">>),
                    "INVALID_REQUEST", 400, <<>>)
    ELSE IF Includes(error.message, "Invalid identifier or password")
    THEN Classified("AuthError", <<"Invalid credentials">>, "INVALID_CREDENTIALS", 0, <<>>)
    ELSE IF Includes(error.message, "ExpiredToken")
            \/ Includes(error.message, "Token has expired")
    THEN Classified("AuthError", <<"Token expired">>, "SESSION_EXPIRED", 0, <<>>)
    ELSE IF Includes(error.message, "Network") \/ Includes(error.message, "fetch failed")
    THEN Classified("NetworkError", error.message, "CONNECTION_FAILED", 0, <<>>)
    ELSE Classified("BskyError", MessageOr(error.message, <<"An unexpected error occurred">>),
                    "", 0, <<>>)

\* A caught BskyError (or TypeError) seen as a raw failure again, as when a
\* catch block hands it to fromApiError: it has code, statusCode and message,
\* and neither status nor headers.
AsThrown(x) == Err(x.code, 0, x.statusCode, <<>>, x.message)

\* getExitCode(error): the instanceof tests in their order, and the switch on
\* the code of an AuthError; any other error, classified or not, gets 1.
GetExitCode(error) ==
    IF error.class = "AuthError"
    THEN (IF error.code = "INVALID_CREDENTIALS" THEN 1
          ELSE IF error.code = "SESSION_EXPIRED" THEN 2
          ELSE IF error.code = "NOT_AUTHENTICATED" THEN 3
          ELSE 1)
    ELSE IF error.class = "NetworkError" THEN 4
    ELSE IF error.class = "RateLimitError" THEN 5
    ELSE IF error.class = "ValidationError" THEN 6
    ELSE IF error.class = "NotFoundError" THEN 7
    ELSE 1

(***************************************************************************)
(* The retry engine (lib/retry.ts).                                        *)
(***************************************************************************)
\* backoffMultiplier is a fraction <<numerator, denominator>>.
DEFAULT_OPTIONS ==
    [maxAttempts |-> 3, initialDelayMs |-> 1000, maxDelayMs |-> 30000,
     backoffMultiplier |-> <<2, 1>>,
     retryableErrors |-> {"ETIMEDOUT", "ECONNRESET", "ECONNREFUSED", "ENOTFOUND",
                          "EAI_AGAIN", "ESOCKETTIMEDOUT"}]

RetryProfiles ==
    [fast     |-> [maxAttempts |-> 3, initialDelayMs |-> 1000, maxDelayMs |-> 5000,
                   backoffMultiplier |-> <<2, 1>>],
     standard |-> [maxAttempts |-> 3, initialDelayMs |-> 2000, maxDelayMs |-> 10000,
                   backoffMultiplier |-> <<2, 1>>],
     long     |-> [maxAttempts |-> 5, initialDelayMs |-> 3000, maxDelayMs |-> 30000,
                   backoffMultiplier |-> <<2, 1>>],
     critical |-> [maxAttempts |-> 5, initialDelayMs |-> 2000, maxDelayMs |-> 30000,
                   backoffMultiplier |-> <<3, 2>>]]

\* { ...DEFAULT_OPTIONS, ...options }
MergeOptions(options) == options @@ DEFAULT_OPTIONS

RECURSIVE Pow(_, _)
Pow(b, k) == IF k = 0 THEN 1 ELSE b * Pow(b, k - 1)

\* calculateDelay with Math.random() = rand / RandDen.  With the multiplier
\* num/den and k = attempt - 1, exponentialDelay is I * num^k / den^k, and
\* floor(cap + cap * 0.25 * (2 * rand / RandDen - 1)) is
\* floor(cap * (3 * RandDen + 2 * rand) / (4 * RandDen)).
CalculateDelay(attempt, initialDelayMs, maxDelayMs, backoffMultiplier, rand) ==
    LET num == Pow(backoffMultiplier[1], attempt - 1)
        den == Pow(backoffMultiplier[2], attempt - 1)
        capped == initialDelayMs * num > maxDelayMs * den
        capNum == IF capped THEN maxDelayMs ELSE initialDelayMs * num
        capDen == IF capped THEN 1 ELSE den
    IN  (capNum * (3 * RandDen + 2 * rand)) \div (capDen * 4 * RandDen)

\* Mutant: only the network codes are retried.
IsRetryableErrorCodesOnly(error, retryableErrors) ==
    error.code # "" /\ error.code \in retryableErrors

\* isRetryableError for an error whose properties can be read.
IsRetryableError(error, retryableErrors) ==
    \/ error.code # "" /\ error.code \in retryableErrors
    \/ StatusOf(error) >= 500 /\ StatusOf(error) < 600 /\ StatusOf(error) # 501
    \/ StatusOf(error) = 429
    \/ Includes(error.message, "socket hang up")
    \/ Includes(error.message, "Connection reset")
    \/ Includes(error.message, "ETIMEDOUT")

\* error.status === 429 || error.statusCode === 429
IsRateLimited(error) == error.status = 429 \/ error.statusCode = 429

\* Mutant: the server's wait is taken as milliseconds.
RateLimitDelayNoConversion(error, initialDelayMs) ==
    IF error.retryAfter # <<>> THEN ParseInt(error.retryAfter) ELSE initialDelayMs

\* retryAfter ? parseInt(retryAfter, 10) * 1000 : opts.initialDelayMs
RateLimitDelay(error, initialDelayMs) ==
    IF error.retryAfter # <<>>
    THEN TimesThousand(ParseInt(error.retryAfter)) ELSE initialDelayMs

\* for (...; attempt <= opts.maxAttempts; ...)
LoopContinues(attempt, maxAttempts) == attempt <= maxAttempts

\* Mutant: the loop gives up one attempt early.
IsLastAttemptOffByOne(attempt, maxAttempts) == attempt = maxAttempts - 1

\* if (attempt === opts.maxAttempts) break
IsLastAttempt(attempt, maxAttempts) == attempt = maxAttempts

(***************************************************************************)
(* The credential store (lib/config.ts).                                   *)
(*                                                                         *)
(* A string is a sequence of code points, a buffer a sequence of bytes.    *)
(* Code points used below: 34 '"', 44 ',', 58 ':', 92 '\', 110 'n',        *)
(* 123 '{', 125 '}', 10 line feed, 48..57 '0'..'9', 97..102 'a'..'f',      *)
(* 65..70 'A'..'F'.                                                        *)
(***************************************************************************)
\* The concatenation of seqs[lo], ..., seqs[hi], by halves.
RECURSIVE ConcatRange(_, _, _)
ConcatRange(seqs, lo, hi) ==
    IF lo > hi THEN <<>>
    ELSE IF lo = hi THEN seqs[lo]
    ELSE LET mid == (lo + hi) \div 2 IN
         ConcatRange(seqs, lo, mid) \o ConcatRange(seqs, mid + 1, hi)

Concat(seqs) == ConcatRange(seqs, 1, Len(seqs))

\* The property names of a Session, in the order of the interface.
SessionKeys == <<"handle", "did", "accessJwt", "refreshJwt", "lastUsed">>

KeyText ==
    [handle     |-> <<104, 97, 110, 100, 108, 101>>,
     did        |-> <<100, 105, 100>>,
     accessJwt  |-> <<97, 99, 99, 101, 115, 115, 74, 119, 116>>,
     refreshJwt |-> <<114, 101, 102, 114, 101, 115, 104, 74, 119, 116>>,
     lastUsed   |-> <<108, 97, 115, 116, 85, 115, 101, 100>>]

\* The value of a property the parsed object does not have.
Undefined == <<-1>>

\* JSON.stringify without its escapes.
EscapeCharVerbatim(c) == <<c>>

\* JSON.stringify of one character of a string: '"' and '\' are escaped, a
\* line feed becomes \n (the other control characters are not used here).
EscapeChar(c) ==
    IF c = 34 THEN <<92, 34>>
    ELSE IF c = 92 THEN <<92, 92>>
    ELSE IF c = 10 THEN <<92, 110>>
    ELSE <<c>>

Quote(text) ==
    <<34>> \o Concat([i \in DOMAIN text |-> EscapeChar(text[i])]) \o <<34>>

Member(key, session) == Quote(KeyText[key]) \o <<58>> \o Quote(session[key])

\* JSON.stringify(session) for an object with the five string properties.
Stringify(session) ==
    <<123>>
    \o Concat([k \in DOMAIN SessionKeys |->
                  (IF k = 1 THEN <<>> ELSE <<44>>) \o Member(SessionKeys[k], session)])
    \o <<125>>

ParseFailure == [ok |-> FALSE, value |-> <<>>, next |-> 0]

\* The characters of a JSON string up to its closing quote, unescaped.
RECURSIVE ScanString(_, _, _)
ScanString(text, i, acc) ==
    IF i > Len(text) THEN ParseFailure
    ELSE IF text[i] = 34 THEN [ok |-> TRUE, value |-> acc, next |-> i + 1]
    ELSE IF text[i] = 92
    THEN IF i + 1 > Len(text) THEN ParseFailure
         ELSE IF text[i + 1] \in {34, 92, 47}
         THEN ScanString(text, i + 2, Append(acc, text[i + 1]))
         ELSE IF text[i + 1] = 110 THEN ScanString(text, i + 2, Append(acc, 10))
         ELSE ParseFailure
    ELSE IF text[i] < 32 THEN ParseFailure
    ELSE ScanString(text, i + 1, Append(acc, text[i]))

ParseString(text, i) ==
    IF i <= Len(text) /\ text[i] = 34 THEN ScanString(text, i + 1, <<>>) ELSE ParseFailure

\* The members of an object after its opening brace: "key":"value" pairs
\* separated by commas, up to the closing brace, which must end the text.
RECURSIVE ParseMembers(_, _, _)
ParseMembers(text, i, pairs) ==
    LET key == ParseString(text, i) IN
    IF ~key.ok \/ key.next > Len(text) \/ text[key.next] # 58 THEN ParseFailure
    ELSE LET val == ParseString(text, key.next + 1) IN
         IF ~val.ok \/ val.next > Len(text) THEN ParseFailure
         ELSE LET more == Append(pairs, <<key.value, val.value>>) IN
              IF text[val.next] = 44 THEN ParseMembers(text, val.next + 1, more)
              ELSE IF text[val.next] = 125 /\ val.next = Len(text)
              THEN [ok |-> TRUE, value |-> more, next |-> val.next + 1]
              ELSE ParseFailure

\* JSON.parse of the text of an object whose members are strings; any other
\* text is a SyntaxError here.
ParseObject(text) ==
    IF Len(text) < 2 \/ text[1] # 123 THEN ParseFailure
    ELSE IF text = <<123, 125>> THEN [ok |-> TRUE, value |-> <<>>, next |-> 3]
    ELSE ParseMembers(text, 2, <<>>)

\* object[key]: the last member of that name wins.
Property(pairs, key) ==
    LET at == { i \in DOMAIN pairs : pairs[i][1] = KeyText[key] } IN
    IF at = {} THEN Undefined
    ELSE pairs[CHOOSE i \in at : \A j \in at : j <= i][2]

\* JSON.parse(decryptedData) as Session
AsSession(pairs) == [k \in {SessionKeys[i] : i \in DOMAIN SessionKeys} |-> Property(pairs, k)]

\* The UTF-8 bytes of a string of code points below 2048.
Utf8Char(c) == IF c < 128 THEN <<c>> ELSE <<192 + (c \div 64), 128 + (c % 64)>>

Utf8Encode(text) == Concat([i \in DOMAIN text |-> Utf8Char(text[i])])

\* The string a UTF-8 decoder makes of bytes: what the byte at position i
\* contributes (nothing when it continues the two-byte character before it);
\* 65533 replaces a malformed byte.
IsContinuation(b) == b >= 128 /\ b < 192

IsLead(b) == b >= 194 /\ b < 224

Utf8At(bytes, i) ==
    IF bytes[i] < 128 THEN <<bytes[i]>>
    ELSE IF IsLead(bytes[i]) /\ i + 1 <= Len(bytes) /\ IsContinuation(bytes[i + 1])
    THEN <<(bytes[i] - 192) * 64 + (bytes[i + 1] - 128)>>
    ELSE IF IsContinuation(bytes[i]) /\ i > 1 /\ IsLead(bytes[i - 1])
    THEN <<>>
    ELSE <<65533>>

Utf8Decode(bytes) == Concat([i \in DOMAIN bytes |-> Utf8At(bytes, i)])

HexDigits == <<48, 49, 50, 51, 52, 53, 54, 55, 56, 57, 97, 98, 99, 100, 101, 102>>

\* buffer.toString('hex')
HexEncode(bytes) ==
    [i \in 1..(2 * Len(bytes)) |->
        LET b == bytes[(i + 1) \div 2] IN
        HexDigits[(IF i % 2 = 1 THEN b \div 16 ELSE b % 16) + 1]]

IsHexChar(c) == (c >= 48 /\ c <= 57) \/ (c >= 97 /\ c <= 102) \/ (c >= 65 /\ c <= 70)

HexValue(c) == IF c <= 57 THEN c - 48 ELSE IF c >= 97 THEN c - 87 ELSE c - 55

IsHexPair(text, k) == IsHexChar(text[2 * k - 1]) /\ IsHexChar(text[2 * k])

\* The number of leading byte pairs of text that are hexadecimal.
HexPairs(text) ==
    LET all == Len(text) \div 2
        bad == { k \in 1..all : ~IsHexPair(text, k) }
    IN  IF bad = {} THEN all ELSE (CHOOSE k \in bad : \A j \in bad : k <= j) - 1

\* Buffer.from(text, 'hex'): decoding stops at the first pair that is not
\* hexadecimal, and what was decoded so far is the buffer.
HexDecode(text) ==
    [i \in 1..HexPairs(text) |-> 16 * HexValue(text[2 * i - 1]) + HexValue(text[2 * i])]

\* text.split(':'): the pieces between the colons.
Split(text) ==
    LET colons == { i \in DOMAIN text : text[i] = 58 }
        \* the position of the k-th colon; 0 and Len(text) + 1 bracket them
        At(k) == IF k = 0 THEN 0
                 ELSE IF k > Cardinality(colons) THEN Len(text) + 1
                 ELSE CHOOSE i \in colons : Cardinality({ j \in colons : j < i }) = k - 1
    IN  [k \in 1..(Cardinality(colons) + 1) |-> SubSeq(text, At(k - 1) + 1, At(k) - 1)]

\* The key scryptSync derives from the home directory: fixed per installation.
EncryptionKey == <<91, 7>>

\* randomBytes(16), scaled to two bytes: the nonces a write can draw.
Ivs == { <<26, 193>>, <<240, 5>> }

\* The sum of i * bytes[i] for i from lo to hi, by halves.
RECURSIVE WeightedSumRange(_, _, _)
WeightedSumRange(bytes, lo, hi) ==
    IF lo > hi THEN 0
    ELSE IF lo = hi THEN lo * bytes[lo]
    ELSE LET mid == (lo + hi) \div 2 IN
         WeightedSumRange(bytes, lo, mid) + WeightedSumRange(bytes, mid + 1, hi)

WeightedSum(bytes) == WeightedSumRange(bytes, 1, Len(bytes))

\* The AES-256-GCM key stream stands for: a byte fixed by key, nonce and
\* position, combined with the plaintext byte by a bijection (here addition
\* modulo 256, in the cipher exclusive or).
KeyStream(iv, i) == (EncryptionKey[1] + WeightedSum(iv) + 31 * i) % 256

CipherBytes(iv, plain) == [i \in DOMAIN plain |-> (plain[i] + KeyStream(iv, i)) % 256]

PlainBytes(iv, cipher) ==
    [i \in DOMAIN cipher |-> (cipher[i] + 256 - KeyStream(iv, i)) % 256]

\* The authentication tag (scaled to two bytes): a keyed digest of nonce and
\* ciphertext.
AuthTag(iv, cipher) ==
    <<(EncryptionKey[2] + WeightedSum(iv) + WeightedSum(cipher)) % 256,
      (EncryptionKey[1] + 3 * Len(cipher) + 7 * WeightedSum(cipher)) % 251>>

\* encrypt(plaintext) with the nonce iv: `${iv hex}:${authTag hex}:${encrypted}`
Encrypt(plaintext, iv) ==
    LET cipher == CipherBytes(iv, Utf8Encode(plaintext)) IN
    HexEncode(iv) \o <<58>> \o HexEncode(AuthTag(iv, cipher)) \o <<58>> \o HexEncode(cipher)

DecryptFailure == [ok |-> FALSE, text |-> <<>>]

\* decrypt(encrypted): the plaintext, or the throw of the format check, of
\* createDecipheriv (empty nonce), or of decipher.final (tag mismatch).
Decrypt(encrypted) ==
    LET parts == Split(encrypted) IN
    IF Len(parts) # 3 THEN DecryptFailure
    ELSE LET iv == HexDecode(parts[1])
             authTag == HexDecode(parts[2])
             cipher == HexDecode(parts[3])
         IN IF iv = <<>> \/ authTag # AuthTag(iv, cipher) THEN DecryptFailure
            ELSE [ok |-> TRUE, text |-> Utf8Decode(PlainBytes(iv, cipher))]

\* 0o600, and a mode a chmod from outside the program can leave: 0o644.
OwnerOnlyMode == 384
GroupReadableMode == 420

\* stats.mode & 0o777 & 0o077
IsInsecureMode(mode) == mode % 64 # 0

NoFile == [exists |-> FALSE, content |-> <<>>, mode |-> OwnerOnlyMode]

\* encryptedData.trim() === ''
IsBlank(text) == \A i \in DOMAIN text : text[i] \in {32, 9, 10, 13}

NoSession ==
    [k \in {SessionKeys[i] : i \in DOMAIN SessionKeys} |-> <<>>]

ReadAbsent == [kind |-> "absent", session |-> NoSession]

\* new Error(`Failed to read session: ...`): not a BskyError.
ReadFailed == [kind |-> "error", session |-> NoSession]

\* readSession() on the session file f: null, a session, or a throw.
ReadSession(f) ==
    IF ~f.exists THEN ReadAbsent
    ELSE IF IsInsecureMode(f.mode) THEN ReadFailed
    ELSE IF IsBlank(f.content) THEN ReadAbsent
    ELSE LET decrypted == Decrypt(f.content) IN
         IF ~decrypted.ok THEN ReadFailed
         ELSE LET parsed == ParseObject(decrypted.text) IN
              IF ~parsed.ok THEN ReadFailed
              ELSE [kind |-> "session", session |-> AsSession(parsed.value)]

\* writeSession(session) drawing the nonce iv: the file is created with mode
\* 0o600 or overwritten, and chmodSync sets 0o600 in both cases.
WriteSession(f, session, iv) ==
    [exists |-> TRUE, content |-> Encrypt(Stringify(session), iv), mode |-> OwnerOnlyMode]

\* clearSession that leaves the file as it is.
ClearSessionKeepsContent(f) == f

\* clearSession(): an existing file is overwritten with the empty string (the
\* mode option of writeFileSync applies to a file it creates only).
ClearSession(f) == IF f.exists THEN [f EXCEPT !.content = <<>>] ELSE f

(***************************************************************************)
(* State.                                                                  *)
(***************************************************************************)
VARIABLES
    call,       \* the operation the running withRetry wraps, and who awaits it
    opts,       \* withRetry: opts
    attempt,    \* withRetry: the loop counter
    lastError,  \* withRetry: lastError (Nullish while unassigned)
    rpc,        \* withRetry: "idle", "attempt" (about to invoke the operation),
                \*            "sleeping" (in await sleep(delayMs)), "done"
    trace,      \* history: what this withRetry call did, in order
    outcome,    \* how the call ended: returned a value, or raised one
    file,       \* the session file: whether it exists, its content, its mode
    now,        \* the clock
    hasSession, \* agent.hasSession: the client has a session attached
    apc,        \* the session-layer operation in progress: "idle", "login",
                \* "resume", "requireAuth", or "settled" once it has ended
    done,       \* how the operation that has just ended ended
    netCalls,   \* history: remote calls made by the operation in progress
    steps,      \* history: the probes and refreshSession calls of the
                \* operation in progress, with how each ended
    before,     \* history: the session file when the operation began
    origin,     \* history: the service origin that the login which wrote the
                \* stored session authenticated against (NoOrigin: none did)
    raw,        \* the raw failure handed to the classifier on its own
    classified, \* what fromApiError made of raw (NoError before the call)
    decision,   \* what isRetryableError said of raw: "none" before the call,
                \* then "retry", "stop" or "threw"
    reclassified, \* what fromApiError made of classified (NoError before)
    exitCode,   \* what getExitCode made of classified (NoExit before the call)
    mainPc,     \* main(): "start", "command" (inside program.parseAsync, the
                \* command handler running), "parsed", "exited"
    argv,       \* the command line, as far as main() and the handler read it
    isDebugEnabled, \* index.ts: the process-wide debug flag
    rendered,   \* history: how each error of this process was rendered, and
                \* what each retry observer read from the flag
    chatNow,    \* Date.now() of the process that holds the ChatClient
    requests,   \* ChatClient: rateLimit.requests
    chatTrace   \* history: every chat call, when it was made and how it ended

retryVars == <<call, opts, attempt, lastError, rpc, trace, outcome>>

authVars == <<file, now, hasSession, apc, done, netCalls, steps, before, origin>>

classVars == <<raw, classified, decision, reclassified, exitCode>>

cliVars == <<mainPc, argv, isDebugEnabled, rendered>>

chatVars == <<chatNow, requests, chatTrace>>

Event(ev, a, value, delay) ==
    [ev |-> ev, attempt |-> a, value |-> value, delay |-> delay]

NoOutcome == [kind |-> "none", value |-> Value("")]

NoCall == [op |-> "none"]

\* The options direct callers pass: a profile or a test's overrides (a short
\* first delay; a cap that the second delay already reaches), with every
\* maxAttempts from 0 to the bound.
CallerOptions ==
    { [maxAttempts |-> n] @@ base :
        n \in 0..MaxAttempts,
        base \in { RetryProfiles.fast, RetryProfiles.critical,
                   [initialDelayMs |-> 100],
                   [initialDelayMs |-> 400, maxDelayMs |-> 500] } }

(***************************************************************************)
(* The remote service behind the client handle (agent.login and            *)
(* agent.resumeSession), as the session layer sees it.                     *)
(***************************************************************************)
\* The origin of the client handle: the constructor's
\* `service || configData.apiEndpoint`, and login's own override; "" is no
\* override, ApiEndpoint the endpoint of the default configuration.
ApiEndpoint == "https://bsky.social"

ServiceOverrides == {"https://pds.example"}

ServiceUrl(service) == IF service # "" THEN service ELSE ApiEndpoint

NoOrigin == ""

\* The identifier and password pairs the service accepts.
Accounts == { [identifier |-> "test.user", password |-> "test-password"] }

LoginInputs ==
    Accounts \cup { [identifier |-> "test.user", password |-> "wrong-password"] }

\* What the service returns for the account: did "d:1", handle "a.b", and
\* the two credentials "A1" and "R1".
AccountData ==
    [did |-> <<100, 58, 49>>, handle |-> <<97, 46, 98>>,
     accessJwt |-> <<65, 49>>, refreshJwt |-> <<82, 49>>]

\* A rejected pair: the test stub throws new Error('Invalid identifier or
\* password'); the service answers HTTP 401 with that message.
LoginRejections ==
    { Err("", 0, 0, <<>>, <<"Invalid identifier or password">>),
      Err("", 401, 0, <<>>, <<"Invalid identifier or password">>) }

\* A stored credential the service no longer accepts.
ResumeRejections ==
    { Err("", 401, 0, <<>>, <<"Unauthorized">>),
      Err("", 400, 0, <<>>, <<"ExpiredToken">>) }

\* Failures of the transport, at any invocation.
TransientErrors ==
    { Err("ECONNREFUSED", 0, 0, <<>>, <<"failed">>),
      Err("", 429, 0, <<"2">>, <<"Too many requests">>) }

\* What one invocation of the wrapped operation can do.
OperationOutcomes(c) ==
    IF c.op = "direct"
    THEN { [ok |-> TRUE, value |-> r] : r \in Results }
           \cup { [ok |-> FALSE, value |-> e] : e \in ThrownErrors }
    ELSE IF c.op = "login"
    THEN (IF [identifier |-> c.identifier, password |-> c.password] \in Accounts
          THEN { [ok |-> TRUE, value |-> Value(AccountData)] }
          ELSE { [ok |-> FALSE, value |-> e] : e \in LoginRejections })
           \cup { [ok |-> FALSE, value |-> e] : e \in TransientErrors }
    ELSE IF c.op = "resume"
    THEN { [ok |-> TRUE, value |-> Value("resumed")] }
           \cup { [ok |-> FALSE, value |-> e] : e \in ResumeRejections \cup TransientErrors }
    ELSE {}

\* The delays the catch block can compute for a retried error.
RetryDelays(error, a, o) ==
    IF IsRateLimited(error)
    THEN { RateLimitDelay(error, o.initialDelayMs) }
    ELSE { CalculateDelay(a, o.initialDelayMs, o.maxDelayMs, o.backoffMultiplier, r) :
             r \in RandomSamples }

Raise(x) == rpc' = "done" /\ outcome' = [kind |-> "raised", value |-> x]

Return(v) == rpc' = "done" /\ outcome' = [kind |-> "returned", value |-> v]

\* withRetry up to its first await: the options are merged and the loop head
\* is evaluated; with no iteration to run the function throws
\* fromApiError(lastError!) of the unassigned lastError.
Begin(c, options) ==
    LET o == MergeOptions(options) IN
    /\ call' = c
    /\ opts' = o
    /\ attempt' = 1
    /\ lastError' = Nullish
    /\ trace' = <<>>
    /\ IF LoopContinues(1, o.maxAttempts)
       THEN rpc' = "attempt" /\ outcome' = NoOutcome
       ELSE Raise(FromApiError(Nullish))

\* Mutant: the observer is told of the failure before it is judged.
CatchNotifiesFirst(error) ==
    LET threw == Event("threw", attempt, error, 0) IN
    /\ lastError' = error
    /\ UNCHANGED <<call, opts, attempt>>
    /\ IF IsLastAttempt(attempt, opts.maxAttempts)
       THEN trace' = Append(trace, threw) /\ Raise(FromApiError(error))
       ELSE IF error.shape = "nullish"
       THEN trace' = Append(trace, threw) /\ Raise(TypeErrorValue)
       ELSE \E d \in RetryDelays(error, attempt, opts) :
              IF ~IsRetryableError(error, opts.retryableErrors)
              THEN /\ trace' = trace \o <<threw, Event("notify", attempt, error, d)>>
                   /\ Raise(FromApiError(error))
              ELSE /\ trace' = trace \o <<threw, Event("notify", attempt, error, d),
                                          Event("sleep", attempt, error, d)>>
                   /\ rpc' = "sleeping"
                   /\ outcome' = NoOutcome

\* The catch block of the loop body, for the value the operation threw.
Catch(error) ==
    LET threw == Event("threw", attempt, error, 0) IN
    /\ lastError' = error
    /\ UNCHANGED <<call, opts, attempt>>
    /\ IF IsLastAttempt(attempt, opts.maxAttempts)
       THEN trace' = Append(trace, threw) /\ Raise(FromApiError(error))
       ELSE IF error.shape = "nullish"
       THEN \* isRetryableError reads error.code: a TypeError leaves withRetry
            trace' = Append(trace, threw) /\ Raise(TypeErrorValue)
       ELSE IF ~IsRetryableError(error, opts.retryableErrors)
       THEN trace' = Append(trace, threw) /\ Raise(FromApiError(error))
       ELSE \E d \in RetryDelays(error, attempt, opts) :
                /\ trace' = trace \o <<threw, Event("notify", attempt, error, d),
                                       Event("sleep", attempt, error, d)>>
                /\ rpc' = "sleeping"
                /\ outcome' = NoOutcome

\* One iteration of the loop, from the invocation of the operation to the
\* return, the throw or the start of the sleep.
Invoke ==
    /\ rpc = "attempt"
    /\ \E o \in OperationOutcomes(call) :
        IF o.ok
        THEN /\ trace' = Append(trace, Event("returned", attempt, o.value, 0))
             /\ Return(o.value)
             /\ UNCHANGED <<call, opts, attempt, lastError>>
        ELSE Catch(o.value)

\* The sleep elapses: attempt++ and the loop head.
Wake ==
    /\ rpc = "sleeping"
    /\ attempt' = attempt + 1
    /\ UNCHANGED <<call, opts, lastError, trace>>
    /\ IF LoopContinues(attempt + 1, opts.maxAttempts)
       THEN rpc' = "attempt" /\ outcome' = NoOutcome
       ELSE Raise(FromApiError(lastError))

\* A caller outside the session layer calls withRetry(operation, options).
StartDirect ==
    /\ rpc = "idle"
    /\ \E options \in CallerOptions : Begin([op |-> "direct"], options)

RetryInit ==
    /\ call = NoCall
    /\ opts = DEFAULT_OPTIONS
    /\ attempt = 1
    /\ lastError = Nullish
    /\ rpc = "idle"
    /\ trace = <<>>
    /\ outcome = NoOutcome

(***************************************************************************)
(* The session lifecycle (lib/auth.ts, the retry-integrated AuthManager),  *)
(* the logout command and the store's own operations.                      *)
(***************************************************************************)
NoError == Classified("none", <<>>, "", 0, <<>>)

NoDone ==
    [op |-> "none", kind |-> "none", error |-> NoError, session |-> NoSession,
     flag |-> FALSE]

Returned(op, session, flag) ==
    [op |-> op, kind |-> "returned", error |-> NoError, session |-> session,
     flag |-> flag]

Raised(op, error) ==
    [op |-> op, kind |-> "raised", error |-> error, session |-> NoSession,
     flag |-> FALSE]

\* The Error readSession throws: `Failed to read session: ...`.
ReadError == Classified("Error", <<"Failed to read session">>, "", 0, <<>>)

\* new Date().toISOString() at clock t: "T0", "T1", ...
Iso(t) == <<84, 48 + t>>

\* The session login builds from the response.
SessionOf(data, t) ==
    [did |-> data.did, handle |-> data.handle, accessJwt |-> data.accessJwt,
     refreshJwt |-> data.refreshJwt, lastUsed |-> Iso(t)]

\* The records a caller of the store writes: handle "a.b", did "d:1" and
\* credentials with a quote, a backslash, a two-byte character (233), a line
\* feed and a brace; and the record of the tests with other credentials.
TestSessions ==
    { [handle |-> <<97, 46, 98>>, did |-> <<100, 58, 49>>,
       accessJwt |-> <<34, 92, 233>>, refreshJwt |-> <<10, 125, 58>>,
       lastUsed |-> <<84, 57>>],
      [handle |-> <<99>>, did |-> <<100, 58, 50>>,
       accessJwt |-> <<65, 50>>, refreshJwt |-> <<>>,
       lastUsed |-> <<84, 48>>] }

Settle(result) == apc' = "settled" /\ done' = result

\* An operation that calls withRetry(operation, RetryProfiles.fast with an
\* onRetry that only logs) and awaits it.
Await(op, c) ==
    /\ apc' = op
    /\ done' = NoDone
    /\ Begin(c, RetryProfiles.fast)

\* new AuthManager(config, service) and login(identifier, password, service)
\* up to its await: the client handle is made for the origin, made again for
\* the override if one is given, and withRetry is called.
LoginStart(service) ==
    /\ apc = "idle"
    /\ \E input \in LoginInputs :
         Await("login", [op |-> "login", identifier |-> input.identifier,
                         password |-> input.password,
                         service |-> ServiceUrl(service)])
    /\ before' = file
    /\ netCalls' = 0
    /\ steps' = <<>>
    /\ UNCHANGED <<file, now, hasSession, origin>>
    /\ UNCHANGED <<classVars, cliVars, chatVars>>

\* The login command without --service.
Login == LoginStart("")

\* The login command with --service.
LoginWithService == \E service \in ServiceOverrides : LoginStart(service)

\* login after withRetry has settled: the session is built and written, or
\* the catch block throws fromApiError(error).
LoginSettle ==
    /\ apc = "login" /\ rpc = "done"
    /\ IF outcome.kind = "returned"
       THEN \E iv \in Ivs :
              LET session == SessionOf(outcome.value.data, now) IN
              /\ file' = WriteSession(file, session, iv)
              /\ Settle(Returned("login", session, TRUE))
              /\ hasSession' = TRUE
              /\ origin' = call.service
       ELSE /\ Settle(Raised("login", FromApiError(AsThrown(outcome.value))))
            /\ UNCHANGED <<file, hasSession, origin>>
    /\ UNCHANGED <<retryVars, now, netCalls, steps, before>>
    /\ UNCHANGED <<classVars, cliVars, chatVars>>

\* resumeSession() up to its await: readSession() outside the try block, the
\* early return for no session, the call of withRetry.
ResumeStartWithoutEarlyReturn(op, whenAbsent) ==
    LET read == ReadSession(file) IN
    /\ before' = file
    /\ netCalls' = 0
    /\ steps' = <<>>
    /\ UNCHANGED <<file, now, hasSession, origin>>
    /\ IF read.kind = "error"
       THEN Settle(Raised(op, ReadError)) /\ UNCHANGED retryVars
       ELSE Await(op, [op |-> "resume", session |-> read.session,
                       service |-> ServiceUrl("")])

ResumeStart(op, whenAbsent) ==
    LET read == ReadSession(file) IN
    /\ before' = file
    /\ netCalls' = 0
    /\ steps' = <<>>
    /\ UNCHANGED <<file, now, hasSession, origin>>
    /\ IF read.kind = "error"
       THEN Settle(Raised(op, ReadError)) /\ UNCHANGED retryVars
       ELSE IF read.kind = "absent"
       THEN Settle(whenAbsent) /\ UNCHANGED retryVars
       ELSE Await(op, [op |-> "resume", session |-> read.session,
                       service |-> ServiceUrl("")])

NotLoggedIn ==
    Classified("AuthError", <<"Not logged in">>, "NOT_AUTHENTICATED", 0, <<>>)

SessionExpired ==
    Classified("AuthError", <<"Session expired - please login again">>,
               "SESSION_EXPIRED", 0, <<>>)

\* auth.resumeSession(), called by a command.
ResumeSession ==
    /\ apc = "idle"
    /\ ResumeStart("resume", Returned("resume", NoSession, FALSE))
    /\ UNCHANGED <<classVars, cliVars, chatVars>>

\* requireAuth(config): the constructor, readSession(), the throw for no
\* session, and auth.resumeSession() up to its await (which reads the same
\* file again).
RequireAuth ==
    /\ apc = "idle"
    /\ ResumeStart("requireAuth", Raised("requireAuth", NotLoggedIn))
    /\ UNCHANGED <<classVars, cliVars, chatVars>>

\* resumeSession after withRetry has settled: the timestamp is bumped and the
\* session rewritten, or the catch block clears the store and throws.
ResumeSettle ==
    /\ apc \in {"resume", "requireAuth"} /\ rpc = "done"
    /\ IF outcome.kind = "returned"
       THEN \E iv \in Ivs :
              LET session == [call.session EXCEPT !.lastUsed = Iso(now)] IN
              /\ file' = WriteSession(file, session, iv)
              /\ Settle(Returned(apc, session, TRUE))
              /\ hasSession' = TRUE
              /\ UNCHANGED origin
       ELSE /\ file' = ClearSession(file)
            /\ Settle(Raised(apc, SessionExpired))
            /\ origin' = NoOrigin
            /\ UNCHANGED hasSession
    /\ UNCHANGED <<retryVars, now, netCalls, steps, before>>
    /\ UNCHANGED <<classVars, cliVars, chatVars>>

SyncOperation ==
    /\ apc = "idle"
    /\ before' = file
    /\ netCalls' = 0
    /\ steps' = <<>>
    /\ UNCHANGED <<retryVars, now, hasSession>>

\* auth.logout()
Logout ==
    /\ SyncOperation
    /\ file' = ClearSession(file)
    /\ origin' = NoOrigin
    /\ Settle(Returned("logout", NoSession, TRUE))
    /\ UNCHANGED <<classVars, cliVars, chatVars>>

\* The action of the logout command: it reads the session first, reports a
\* failure of that read and exits, and calls auth.logout() only for a session.
LogoutCommand ==
    /\ SyncOperation
    /\ LET read == ReadSession(file) IN
       IF read.kind = "error"
       THEN /\ UNCHANGED <<file, origin>>
            /\ Settle(Raised("logoutCommand", ReadError))
       ELSE IF read.kind = "absent"
       THEN /\ UNCHANGED <<file, origin>>
            /\ Settle(Returned("logoutCommand", NoSession, FALSE))
       ELSE /\ file' = ClearSession(file)
            /\ origin' = NoOrigin
            /\ Settle(Returned("logoutCommand", NoSession, TRUE))
    /\ UNCHANGED <<classVars, cliVars, chatVars>>

\* config.writeSession(session), called on the store directly.
Write ==
    /\ SyncOperation
    /\ \E session \in TestSessions, iv \in Ivs :
         /\ file' = WriteSession(file, session, iv)
         /\ origin' = NoOrigin
         /\ Settle(Returned("write", session, TRUE))
    /\ UNCHANGED <<classVars, cliVars, chatVars>>

\* What a process that dies inside writeSession(session) leaves: the file as
\* it was (before writeFileSync opened it), or the file opened, truncated
\* and filled with the first bytes of the new content, none, half or all of
\* them; chmodSync has not run, so an existing file keeps its mode and a new
\* one has the mode it was created with.
CrashedWrites(f, session, iv) ==
    LET content == Encrypt(Stringify(session), iv)
        mode == IF f.exists THEN f.mode ELSE OwnerOnlyMode
    IN  {f} \cup { [exists |-> TRUE, content |-> SubSeq(content, 1, n), mode |-> mode] :
                     n \in {0, Len(content) \div 2, Len(content)} }

\* config.writeSession(session) in a process that dies before it returns;
\* the next process starts with a client that has no session attached.
WriteCrash ==
    /\ apc = "idle"
    /\ before' = file
    /\ netCalls' = 0
    /\ steps' = <<>>
    /\ hasSession' = FALSE
    /\ UNCHANGED <<retryVars, now>>
    /\ \E session \in TestSessions, iv \in Ivs :
         /\ file' \in CrashedWrites(file, session, iv)
         /\ origin' = IF file' = file THEN origin ELSE NoOrigin
         /\ Settle([Returned("write", session, FALSE) EXCEPT !.kind = "crashed"])
    /\ UNCHANGED <<classVars, cliVars, chatVars>>

\* config.clearSession(), called on the store directly.
Clear ==
    /\ SyncOperation
    /\ file' = ClearSession(file)
    /\ origin' = NoOrigin
    /\ Settle(Returned("clear", NoSession, TRUE))
    /\ UNCHANGED <<classVars, cliVars, chatVars>>

\* The body of refreshSession() on file f at clock t: readSession() may
\* throw; a session read is written back with its timestamp bumped; with no
\* session nothing is done.  No call to the service is made.
Refreshed(f, t, iv) ==
    LET read == ReadSession(f) IN
    IF read.kind = "error" THEN [threw |-> TRUE, file |-> f]
    ELSE IF read.kind = "absent" THEN [threw |-> FALSE, file |-> f]
    ELSE [threw |-> FALSE,
          file |-> WriteSession(f, [read.session EXCEPT !.lastUsed = Iso(t)], iv)]

\* auth.refreshSession(), called on its own.
RefreshSession ==
    /\ SyncOperation
    /\ \E iv \in Ivs :
         LET r == Refreshed(file, now, iv) IN
         /\ file' = r.file
         /\ IF r.threw
            THEN Settle(Raised("refresh", ReadError))
            ELSE Settle(Returned("refresh", NoSession, TRUE))
    /\ UNCHANGED origin
    /\ UNCHANGED <<classVars, cliVars, chatVars>>

\* One entry of the history of an operation: a probe or a refreshSession
\* call, whether it returned, and what it threw if it did not.
NoFailure == Err("", 0, 0, <<>>, <<>>)

Step(kind, ok, error) == [kind |-> kind, ok |-> ok, error |-> error]

\* What agent.getProfile can throw: the service rejects the credential, or
\* the transport fails.
ProbeFailures == ResumeRejections \cup TransientErrors

\* Mutant: every failure of the probe is taken for an expired credential.
IsExpiredAnyFailure(error) == TRUE

\* error.status === 401 || error.message?.includes('ExpiredToken')
IsExpired(error) == error.status = 401 \/ Includes(error.message, "ExpiredToken")

\* validateSession() up to its await: without a session attached to the
\* client it returns false at once; otherwise it calls agent.getProfile.
ValidateSession ==
    /\ apc = "idle"
    /\ before' = file
    /\ netCalls' = 0
    /\ steps' = <<>>
    /\ IF ~hasSession
       THEN Settle(Returned("validate", NoSession, FALSE))
       ELSE apc' = "validate" /\ done' = NoDone
    /\ UNCHANGED <<retryVars, file, now, hasSession, origin>>
    /\ UNCHANGED <<classVars, cliVars, chatVars>>

\* validateSession() from the end of the probe: true for a probe that
\* succeeded; for a probe that failed as expired, refreshSession() and true
\* if it returned, false if it threw; false for any other failure.
ValidateSettle ==
    /\ apc = "validate"
    /\ netCalls' = netCalls + 1
    /\ \/ /\ steps' = Append(steps, Step("probe", TRUE, NoFailure))
          /\ Settle(Returned("validate", NoSession, TRUE))
          /\ UNCHANGED file
       \/ \E error \in ProbeFailures :
            IF IsExpired(error)
            THEN \E iv \in Ivs :
                   LET r == Refreshed(file, now, iv) IN
                   /\ file' = r.file
                   /\ steps' = steps \o <<Step("probe", FALSE, error),
                                           Step("refresh", ~r.threw, NoFailure)>>
                   /\ Settle(Returned("validate", NoSession, ~r.threw))
            ELSE /\ steps' = Append(steps, Step("probe", FALSE, error))
                 /\ Settle(Returned("validate", NoSession, FALSE))
                 /\ UNCHANGED file
    /\ UNCHANGED <<retryVars, now, hasSession, before, origin>>
    /\ UNCHANGED <<classVars, cliVars, chatVars>>

\* The caller takes the result; the layer is ready for the next operation.
Acknowledge ==
    /\ apc = "settled"
    /\ apc' = "idle"
    /\ done' = NoDone
    /\ netCalls' = 0
    /\ steps' = <<>>
    /\ before' = NoFile
    /\ call' = NoCall
    /\ opts' = DEFAULT_OPTIONS
    /\ attempt' = 1
    /\ lastError' = Nullish
    /\ rpc' = "idle"
    /\ trace' = <<>>
    /\ outcome' = NoOutcome
    /\ UNCHANGED <<file, now, hasSession, origin>>
    /\ UNCHANGED <<classVars, cliVars, chatVars>>

\* One invocation of the remote call an operation awaits.
RemoteInvoke ==
    /\ apc \in {"login", "resume", "requireAuth"}
    /\ Invoke
    /\ netCalls' = netCalls + 1
    /\ UNCHANGED <<file, now, hasSession, apc, done, steps, before, origin>>
    /\ UNCHANGED <<classVars, cliVars, chatVars>>

RemoteWake ==
    /\ apc \in {"login", "resume", "requireAuth"}
    /\ Wake
    /\ UNCHANGED authVars
    /\ UNCHANGED <<classVars, cliVars, chatVars>>

\* Outside the program, between operations: the mode of the session file is
\* changed, and time passes.
ExternalChmod ==
    /\ apc = "idle"
    /\ file.exists
    /\ \E mode \in {OwnerOnlyMode, GroupReadableMode} \ {file.mode} :
         file' = [file EXCEPT !.mode = mode]
    /\ UNCHANGED <<retryVars, now, hasSession, apc, done, netCalls, steps, before, origin>>
    /\ UNCHANGED <<classVars, cliVars, chatVars>>

\* The content is what writeSession produces: writing the record it decodes
\* to, with the nonce it names, gives the same bytes.
Pristine(content) ==
    LET decrypted == Decrypt(content)
        parsed == ParseObject(decrypted.text)
    IN  /\ decrypted.ok
        /\ parsed.ok
        /\ content = Encrypt(Stringify(AsSession(parsed.value)), HexDecode(Split(content)[1]))

\* What an edit of the session file from outside the program can leave of
\* its content: its first hexadecimal letter in the other case (bit 5
\* flipped); another digit in the tag or in the ciphertext; the last byte
\* pair cut off.
TamperedContents(content) ==
    LET letters == { p \in DOMAIN content : content[p] \in 97..102 }
        first == CHOOSE p \in letters : \A q \in letters : p <= q
        Other(c) == IF c = 48 THEN 49 ELSE 48
        colon == CHOOSE p \in DOMAIN content : content[p] = 58 /\ \A q \in 1..(p - 1) : content[q] # 58
    IN  { [content EXCEPT ![first] = content[first] - 32] }
        \cup { [content EXCEPT ![p] = Other(content[p])] : p \in {colon + 1, Len(content)} }
        \cup { SubSeq(content, 1, Len(content) - 2) }

\* The file the store wrote is edited outside the program.
Tamper ==
    /\ apc = "idle"
    /\ file.exists
    /\ Pristine(file.content)
    /\ \E content \in TamperedContents(file.content) :
         file' = [file EXCEPT !.content = content]
    /\ UNCHANGED <<retryVars, now, hasSession, apc, done, netCalls, steps, before, origin>>
    /\ UNCHANGED <<classVars, cliVars, chatVars>>

Tick ==
    /\ apc = "idle"
    /\ now < MaxClock
    /\ now' = now + 1
    /\ UNCHANGED <<retryVars, file, hasSession, apc, done, netCalls, steps, before, origin>>
    /\ UNCHANGED <<classVars, cliVars, chatVars>>

AuthInit ==
    /\ file = NoFile
    /\ now = 0
    /\ hasSession = FALSE
    /\ apc = "idle"
    /\ done = NoDone
    /\ netCalls = 0
    /\ steps = <<>>
    /\ before = NoFile
    /\ origin = NoOrigin

(***************************************************************************)
(* The entry point (index.ts, src/unnamed/part_006): main(), the debug     *)
(* flag, and the rendering of an error by a command handler or by main.    *)
(***************************************************************************)
\* getUserMessage() of the error's class.
GetUserMessage(error) ==
    IF error.class = "AuthError"
    THEN (IF error.code = "INVALID_CREDENTIALS" THEN <<"Invalid handle or password.">>
          ELSE IF error.code = "SESSION_EXPIRED" THEN <<"Your session has expired.">>
          ELSE IF error.code = "NOT_AUTHENTICATED" THEN <<"Not logged in.">>
          ELSE IF error.code = "TOKEN_REFRESH_FAILED"
          THEN <<"Failed to refresh authentication token.">>
          ELSE error.message)
    ELSE IF error.class = "NetworkError"
    THEN (IF error.code = "CONNECTION_FAILED" THEN <<"Could not connect to Bluesky.">>
          ELSE IF error.code = "TIMEOUT" THEN <<"Request timed out.">>
          ELSE IF error.code = "DNS_LOOKUP_FAILED"
          THEN <<"Failed to resolve Bluesky server.">>
          ELSE IF error.code = "CONNECTION_REFUSED"
          THEN <<"Connection refused by server.">>
          ELSE IF error.code = "SOCKET_HANG_UP" THEN <<"Connection lost.">>
          ELSE <<"Network error:">> \o error.message)
    ELSE IF error.class = "RateLimitError" THEN <<"Rate limit exceeded.">>
    ELSE IF error.class = "ValidationError" THEN <<"Validation error:">> \o error.message
    ELSE IF error.class = "NotFoundError" THEN <<"Not found:">> \o error.message
    ELSE error.message

\* What is printed for an error: in debug form its name, message, code and
\* status (getDebugOutput; name, message and stack for another Error), else
\* the user message of its class (the bare message for another Error).
Output(form, name, message, code, statusCode) ==
    [form |-> form, name |-> name, message |-> message, code |-> code,
     statusCode |-> statusCode]

NoOutput == Output("none", "", <<>>, "", 0)

FormatError(error, debug) ==
    IF IsClassified(error)
    THEN (IF debug
          THEN Output("debug", error.class, error.message, error.code, error.statusCode)
          ELSE Output("human", "", GetUserMessage(error), "", 0))
    ELSE (IF debug
          THEN Output("debug", error.class, error.message, "", 0)
          ELSE Output("human", "", error.message, "", 0))

\* The errors a command can end with.
CommandErrors ==
    { FromApiError(e) : e \in NetworkCodeErrors \cup RateLimitErrors \cup PermanentErrors }
      \cup { SessionExpired, NotLoggedIn, TypeErrorValue }

\* One reading of the flag: by a retry observer ("observer"), by the catch
\* block of a command handler ("handler") or by that of main ("main").
Reading(by, debug, output) == [by |-> by, debug |-> debug, output |-> output]

\* main() up to program.parseAsync(process.argv): the commands are
\* registered and the command named on the command line starts to run.
MainStart ==
    /\ mainPc = "start"
    /\ \E debug \in BOOLEAN : argv' = [debug |-> debug]
    /\ mainPc' = "command"
    /\ UNCHANGED <<isDebugEnabled, rendered>>
    /\ UNCHANGED <<retryVars, authVars, classVars, chatVars>>

\* An onRetry observer of the running command reads getDebugEnabled().
ObserverReads ==
    /\ mainPc = "command"
    /\ Len(rendered) < MaxObserved
    /\ rendered' = Append(rendered, Reading("observer", isDebugEnabled, NoOutput))
    /\ UNCHANGED <<mainPc, argv, isDebugEnabled>>
    /\ UNCHANGED <<retryVars, authVars, classVars, chatVars>>

\* The handler catches an error, prints formatError(error, getDebugEnabled())
\* and exits the process.
HandlerExits ==
    /\ mainPc = "command"
    /\ \E error \in CommandErrors :
         rendered' = Append(rendered, Reading("handler", isDebugEnabled,
                                              FormatError(error, isDebugEnabled)))
    /\ mainPc' = "exited"
    /\ UNCHANGED <<argv, isDebugEnabled>>
    /\ UNCHANGED <<retryVars, authVars, classVars, chatVars>>

\* The handler lets an error out of program.parseAsync: the catch block of
\* main prints formatError(error, isDebugEnabled) and exits the process.
HandlerThrows ==
    /\ mainPc = "command"
    /\ \E error \in CommandErrors :
         rendered' = Append(rendered, Reading("main", isDebugEnabled,
                                              FormatError(error, isDebugEnabled)))
    /\ mainPc' = "exited"
    /\ UNCHANGED <<argv, isDebugEnabled>>
    /\ UNCHANGED <<retryVars, authVars, classVars, chatVars>>

\* The handler returns and so does program.parseAsync.
HandlerReturns ==
    /\ mainPc = "command"
    /\ mainPc' = "parsed"
    /\ UNCHANGED <<argv, isDebugEnabled, rendered>>
    /\ UNCHANGED <<retryVars, authVars, classVars, chatVars>>

\* main() after program.parseAsync: `if (options.debug) setDebugEnabled(true)`,
\* and main returns.
SetDebug ==
    /\ mainPc = "parsed"
    /\ isDebugEnabled' = (argv.debug \/ isDebugEnabled)
    /\ mainPc' = "exited"
    /\ UNCHANGED <<argv, rendered>>
    /\ UNCHANGED <<retryVars, authVars, classVars, chatVars>>

CliInit ==
    /\ mainPc = "start"
    /\ argv = [debug |-> FALSE]
    /\ isDebugEnabled = FALSE
    /\ rendered = <<>>

(***************************************************************************)
(* The chat client's limiter (lib/chat.ts).                                *)
(***************************************************************************)
MaxRequests == 30

WindowMs == 60000

\* Math.ceil(x / 1000)
CeilSeconds(x) == -((-x) \div 1000)

\* Mutant: the limit is tested with > instead of >=.
CheckRateLimitOffByOne(reqs, t) ==
    LET kept == SelectSeq(reqs, LAMBDA time : time > t - WindowMs) IN
    IF Len(kept) > MaxRequests
    THEN [threw |-> TRUE, requests |-> kept,
          waitSeconds |-> CeilSeconds(kept[1] + WindowMs - t)]
    ELSE [threw |-> FALSE, requests |-> Append(kept, t), waitSeconds |-> 0]

\* checkRateLimit() at Date.now() = t with rateLimit.requests = reqs: the
\* requests kept, whether it threw and with which wait in its message.
CheckRateLimit(reqs, t) ==
    LET kept == SelectSeq(reqs, LAMBDA time : time > t - WindowMs) IN
    IF Len(kept) >= MaxRequests
    THEN [threw |-> TRUE, requests |-> kept,
          waitSeconds |-> CeilSeconds(kept[1] + WindowMs - t)]
    ELSE [threw |-> FALSE, requests |-> Append(kept, t), waitSeconds |-> 0]

\* One call of the chat client.
ChatEvent(at, admitted, code, waitSeconds) ==
    [at |-> at, admitted |-> admitted, code |-> code, waitSeconds |-> waitSeconds]

\* getConvos(), getConvo() or getMessages(): checkRateLimit() first, and the
\* call to the chat service only if it did not throw; handleError rethrows
\* the ChatError of the limiter as it is.
ChatCall ==
    /\ Len(chatTrace) < MaxChatCalls
    /\ LET r == CheckRateLimit(requests, chatNow) IN
         /\ requests' = r.requests
         /\ chatTrace' = Append(chatTrace,
                IF r.threw
                THEN ChatEvent(chatNow, FALSE, "RATE_LIMIT_EXCEEDED", r.waitSeconds)
                ELSE ChatEvent(chatNow, TRUE, "", 0))
    /\ UNCHANGED chatNow
    /\ UNCHANGED <<retryVars, authVars, classVars, cliVars>>

\* The instants at which the process reads the clock: the start, the last
\* millisecond of the first window and the first millisecond after it.
ChatInstants == {0, WindowMs - 1, WindowMs}

\* Time passes between two calls.
ChatTick ==
    /\ \E t \in ChatInstants : t > chatNow /\ chatNow' = t
    /\ UNCHANGED <<requests, chatTrace>>
    /\ UNCHANGED <<retryVars, authVars, classVars, cliVars>>

ChatInit ==
    /\ chatNow = 0
    /\ requests = <<>>
    /\ chatTrace = <<>>

vars == <<retryVars, authVars, classVars, cliVars, chatVars>>

\* Nothing has been classified yet; getExitCode returns 1 or more, and 0
\* stands for no exit code yet.
ClassifyInit ==
    /\ classified = NoError
    /\ decision = "none"
    /\ reclassified = NoError
    /\ exitCode = 0

Init ==
    /\ RetryInit
    /\ AuthInit
    /\ raw = Err("", 0, 0, <<>>, <<>>)
    /\ ClassifyInit
    /\ CliInit
    /\ ChatInit

\* withRetry called directly.
DirectStart == StartDirect /\ UNCHANGED <<authVars, classVars, cliVars, chatVars>>

DirectInvoke == call.op = "direct" /\ Invoke /\ UNCHANGED <<authVars, classVars, cliVars, chatVars>>

DirectWake == call.op = "direct" /\ Wake /\ UNCHANGED <<authVars, classVars, cliVars, chatVars>>

Next == DirectStart \/ DirectInvoke \/ DirectWake

Spec == Init /\ [][Next]_vars

NextAuth ==
    \/ Login \/ LoginSettle
    \/ ResumeSession \/ RequireAuth \/ ResumeSettle
    \/ Logout \/ LogoutCommand
    \/ Write \/ WriteCrash \/ Clear
    \/ RemoteInvoke \/ RemoteWake
    \/ Acknowledge
    \/ ExternalChmod \/ Tamper \/ Tick

SpecAuth == Init /\ [][NextAuth]_vars

\* The session lifecycle with validateSession, refreshSession and the login
\* command's --service, over the store as the lifecycle itself and a change
\* of the file's mode leave it.
NextSession ==
    \/ Login \/ LoginWithService \/ LoginSettle
    \/ ResumeSession \/ RequireAuth \/ ResumeSettle
    \/ ValidateSession \/ ValidateSettle \/ RefreshSession
    \/ Logout
    \/ RemoteInvoke \/ RemoteWake
    \/ Acknowledge
    \/ ExternalChmod \/ Tamper \/ Tick

SpecSession == Init /\ [][NextSession]_vars

NextCli ==
    \/ MainStart \/ ObserverReads
    \/ HandlerExits \/ HandlerThrows \/ HandlerReturns
    \/ SetDebug

SpecCli == Init /\ [][NextCli]_vars

NextChat == ChatCall \/ ChatTick

SpecChat == Init /\ [][NextChat]_vars

(***************************************************************************)
(* The classifier and the retry decision on their own (lib/errors.ts       *)
(* fromApiError, lib/retry.ts isRetryableError), applied to one raw        *)
(* failure.                                                                *)
(***************************************************************************)
\* The raw failures: every combination of a code, a status or statusCode and
\* a message, the 429 ones with and without a retry-after header; null or
\* undefined; a primitive.
RawInputs ==
    LET codes == {"", "ENOTFOUND", "ECONNREFUSED", "ETIMEDOUT", "ECONNRESET", "EPIPE"}
        statuses == { <<0, 0>>, <<401, 0>>, <<429, 0>>, <<404, 0>>, <<400, 0>>,
                      <<503, 0>>, <<418, 0>>, <<0, 401>> }
        messages == { <<>>, <<"socket hang up">>, <<"Invalid identifier or password">>,
                      <<"ExpiredToken">>, <<"Network", "error", "occurred">>,
                      <<"Unknown", "error">>, <<"connect", "ETIMEDOUT">> }
    IN  { Err(c, st[1], st[2], h, m) :
            c \in codes, st \in statuses, h \in {<<>>, <<"6", "0">>}, m \in messages }
        \cup {Nullish, Primitive}

InitClassify ==
    /\ RetryInit
    /\ AuthInit
    /\ raw \in RawInputs
    /\ ClassifyInit
    /\ CliInit
    /\ ChatInit

\* fromApiError(raw)
Classify ==
    /\ classified = NoError
    /\ classified' = FromApiError(raw)
    /\ UNCHANGED <<retryVars, authVars, cliVars, chatVars>>
    /\ UNCHANGED <<raw, decision, reclassified, exitCode>>

\* isRetryableError(raw, DEFAULT_OPTIONS.retryableErrors); reading error.code
\* of null or undefined throws.
Judge ==
    /\ decision = "none"
    /\ decision' = IF raw.shape = "nullish" THEN "threw"
                   ELSE IF IsRetryableError(raw, DEFAULT_OPTIONS.retryableErrors)
                   THEN "retry" ELSE "stop"
    /\ UNCHANGED <<retryVars, authVars, cliVars, chatVars>>
    /\ UNCHANGED <<raw, classified, reclassified, exitCode>>

\* fromApiError(error) in a catch block whose error is the classified error
\* that withRetry threw (login's catch).
Reclassify ==
    /\ classified # NoError
    /\ reclassified = NoError
    /\ reclassified' = FromApiError(AsThrown(classified))
    /\ UNCHANGED <<retryVars, authVars, cliVars, chatVars>>
    /\ UNCHANGED <<raw, classified, decision, exitCode>>

\* process.exit(getExitCode(error)) for the classified error.
Exit ==
    /\ classified # NoError
    /\ exitCode = 0
    /\ exitCode' = GetExitCode(classified)
    /\ UNCHANGED <<retryVars, authVars, cliVars, chatVars>>
    /\ UNCHANGED <<raw, classified, decision, reclassified>>

NextClassify == Classify \/ Judge \/ Reclassify \/ Exit

SpecClassify == InitClassify /\ [][NextClassify]_vars

(***************************************************************************)
(* Reading the history.                                                    *)
(***************************************************************************)
EventsOf(kinds) == SelectSeq(trace, LAMBDA e : e.ev \in kinds)

\* How many times the operation has been invoked.
Invocations == Len(EventsOf({"threw", "returned"}))

Thrown == EventsOf({"threw"})

Notifications == EventsOf({"notify"})

Sleeps == EventsOf({"sleep"})

Finished == rpc = "done"

(***************************************************************************)
(* The retry engine's claims.                                              *)
(***************************************************************************)
\* The classes of failure the specification calls retryable, read off the raw
\* error: connection refused, timeout, DNS failure, connection reset / socket
\* hang up, HTTP 5xx other than 501, HTTP 429.
InRetryableClass(e) ==
    /\ e.shape = "object"
    /\ \/ e.code \in {"ECONNREFUSED", "ETIMEDOUT", "ESOCKETTIMEDOUT", "ENOTFOUND",
                      "EAI_AGAIN", "ECONNRESET"}
       \/ Includes(e.message, "socket hang up")
       \/ StatusOf(e) \in (500..599) \ {501}
       \/ StatusOf(e) = 429

AlwaysThrewRetryable ==
    /\ EventsOf({"returned"}) = <<>>
    /\ \A i \in DOMAIN Thrown : InRetryableClass(Thrown[i].value)

\* C1: with an operation that throws a retryable error at every invocation
\* and maxAttempts = N >= 1, withRetry never invokes it more than N times,
\* keeps going while fewer than N invocations were made, and ends, after
\* exactly N invocations, by raising a classified error.
C1_RetryTermination ==
    (rpc # "idle" /\ opts.maxAttempts >= 1 /\ AlwaysThrewRetryable) =>
        /\ Invocations <= opts.maxAttempts
        /\ Finished => /\ Invocations = opts.maxAttempts
                       /\ outcome.kind = "raised"
                       /\ IsClassified(outcome.value)
        /\ ~Finished => /\ Invocations < opts.maxAttempts
                        /\ ENABLED Next

C1_Witness ==
    /\ Finished
    /\ opts.maxAttempts = 3
    /\ AlwaysThrewRetryable
    /\ Invocations = 3
    /\ outcome.kind = "raised"
    /\ outcome.value.class = "RateLimitError"
    /\ \E i \in DOMAIN Thrown : Thrown[i].value.code = "ECONNREFUSED"

\* The failures the specification calls non-retryable: an error carrying HTTP
\* status 401, 400, 404 or 501, or one with nothing that identifies it as
\* transient (no status, no known network code, no socket-hang-up text).
InPermanentClass(e) ==
    \/ StatusOf(e) \in {401, 400, 404, 501}
    \/ /\ StatusOf(e) = 0
       /\ e.code \notin DEFAULT_OPTIONS.retryableErrors
       /\ ~Includes(e.message, "socket hang up")
       /\ ~Includes(e.message, "Connection reset")
       /\ ~Includes(e.message, "ETIMEDOUT")

\* C2 (as claimed): once the operation has thrown a non-retryable error,
\* withRetry is over after that single invocation, has not slept and has not
\* notified the observer.
C2_ShortCircuit ==
    (Thrown # <<>> /\ InPermanentClass(Thrown[1].value)) =>
        /\ Finished
        /\ Invocations = 1
        /\ Notifications = <<>>
        /\ Sleeps = <<>>

\* C3: a success on attempt k is returned as it is, after exactly k
\* invocations, k - 1 notifications and k - 1 sleeps (none for k = 1); and
\* while every failure so far was retryable and attempts remain, withRetry
\* has not given up, so that the success can still come.
C3_ReturnsTheResult ==
    /\ \A i \in DOMAIN trace :
         trace[i].ev = "returned" =>
             /\ i = Len(trace)
             /\ Finished
             /\ outcome = [kind |-> "returned", value |-> trace[i].value]
             /\ Invocations = trace[i].attempt
             /\ Len(Notifications) = trace[i].attempt - 1
             /\ Len(Sleeps) = trace[i].attempt - 1
    /\ (rpc # "idle" /\ AlwaysThrewRetryable /\ Invocations < opts.maxAttempts) =>
             ~Finished
    /\ (Finished /\ outcome.kind = "returned") =>
             trace # <<>> /\ trace[Len(trace)].ev = "returned"

C3_Witness ==
    /\ Finished
    /\ outcome = [kind |-> "returned", value |-> Value("success")]
    /\ Invocations = 3
    /\ Len(Sleeps) = 2
    /\ \E i \in DOMAIN Thrown : StatusOf(Thrown[i].value) = 503

\* C4 (as claimed): whatever withRetry raises is a classified error.
C4_RaisesOnlyClassified ==
    (Finished /\ outcome.kind = "raised") => IsClassified(outcome.value)

\* The wait a server names: the seconds its retry-after header spells.
IsSeconds(header) == header # <<>> /\ \A i \in DOMAIN header : IsDigit(header[i])

SecondsOf(header) == DigitsToNumber(header, Len(header))

\* C5: an attempt that fails with HTTP 429 and a retry-after of s seconds,
\* before the last permitted attempt, is followed by a sleep of exactly
\* s * 1000 ms, whatever the options and the attempt number, and the next
\* attempt is not made before that sleep.
C5_RateLimitWait ==
    \A i \in DOMAIN trace :
        ( /\ trace[i].ev = "threw"
          /\ StatusOf(trace[i].value) = 429
          /\ IsSeconds(trace[i].value.retryAfter)
          /\ trace[i].attempt < opts.maxAttempts ) =>
            /\ i + 2 <= Len(trace)
            /\ trace[i + 1].ev = "notify"
            /\ trace[i + 2].ev = "sleep"
            /\ trace[i + 2].attempt = trace[i].attempt
            /\ trace[i + 2].delay = SecondsOf(trace[i].value.retryAfter) * 1000
            /\ trace[i + 1].delay = trace[i + 2].delay

C5_Witness ==
    /\ rpc = "sleeping"
    /\ attempt = 2
    /\ opts.initialDelayMs = 100
    /\ trace[Len(trace)].ev = "sleep"
    /\ trace[Len(trace)].delay = 10000
    /\ trace[Len(trace)].value.retryAfter = <<"1", "0">>

\* C15 (as claimed): no sleep of withRetry is longer than maxDelayMs.
C15_DelayWithinCap ==
    \A i \in DOMAIN Sleeps : Sleeps[i].delay <= opts.maxDelayMs

\* The delay before jitter for the retry after attempt k, as the fraction
\* <<numerator, denominator>>: min(initialDelay * multiplier^(k-1), maxDelay).
BaseDelay(k) ==
    LET num == opts.initialDelayMs * Pow(opts.backoffMultiplier[1], k - 1)
        den == Pow(opts.backoffMultiplier[2], k - 1)
    IN  IF num > opts.maxDelayMs * den THEN <<opts.maxDelayMs, 1>> ELSE <<num, den>>

\* C16 (as claimed): the sleep after a failure of attempt k that carries no
\* retry-after lies within 25% of the base delay, up to the rounding down to
\* whole milliseconds.
C16_DelayWithinJitter ==
    \A i \in DOMAIN Sleeps :
        Sleeps[i].value.retryAfter = <<>> =>
            LET base == BaseDelay(Sleeps[i].attempt) IN
            /\ 4 * (Sleeps[i].delay + 1) * base[2] > 3 * base[1]
            /\ 4 * Sleeps[i].delay * base[2] <= 5 * base[1]

\* C17: attempts are made one after the other, each after the failure of the
\* one before was judged retryable and its sleep has elapsed; the k-th
\* notification is for attempt k, right after its failure and right before
\* the sleep of the delay it names; nothing else is notified, so there are
\* at most maxAttempts - 1 notifications.
C17_SequentialAttempts ==
    /\ \A i \in DOMAIN trace :
         LET e == trace[i] IN
         /\ e.ev \in {"threw", "returned"} =>
               /\ e.attempt = Len(SelectSeq(SubSeq(trace, 1, i),
                                            LAMBDA x : x.ev \in {"threw", "returned"}))
               /\ e.attempt <= opts.maxAttempts
               /\ e.attempt > 1 =>
                     /\ trace[i - 1].ev = "sleep"
                     /\ trace[i - 1].attempt = e.attempt - 1
         /\ e.ev = "notify" =>
               /\ e.attempt = Len(SelectSeq(SubSeq(trace, 1, i), LAMBDA x : x.ev = "notify"))
               /\ trace[i - 1] = Event("threw", e.attempt, e.value, 0)
               /\ IsRetryableError(e.value, opts.retryableErrors)
               /\ e.attempt < opts.maxAttempts
               /\ i < Len(trace)
               /\ trace[i + 1] = Event("sleep", e.attempt, e.value, e.delay)
         /\ e.ev = "sleep" => trace[i - 1].ev = "notify"
    /\ rpc = "attempt" => Invocations = attempt - 1
    /\ rpc = "sleeping" =>
         /\ Invocations = attempt
         /\ trace[Len(trace)].ev = "sleep"
         /\ trace[Len(trace)].attempt = attempt
    /\ Finished /\ Invocations > 0 => Len(Notifications) = Invocations - 1
    /\ opts.maxAttempts >= 1 => Len(Notifications) <= opts.maxAttempts - 1

C17_Witness ==
    /\ Finished
    /\ outcome.kind = "raised"
    /\ Invocations = 3
    /\ Len(Notifications) = 2
    /\ Notifications[1].delay # Notifications[2].delay
    /\ Notifications[2].attempt = 2
    /\ ~IsRetryableError(Thrown[3].value, opts.retryableErrors)

(***************************************************************************)
(* The session lifecycle's and the store's claims.                         *)
(***************************************************************************)
Settled(ops) == apc = "settled" /\ done.op \in ops

\* The error the last invocation of the awaited remote call threw.
LastThrown == Thrown[Len(Thrown)].value

\* The awaited remote call failed: withRetry raised.
RemoteFailed == rpc = "done" /\ outcome.kind = "raised"

\* C6: a resume() whose remote re-establishment failed, by a rejection of the
\* stored credential or with the fast profile spent, has raised
\* session-expired and left a store whose read() is absent.
C6_ResumeFailureClears ==
    (Settled({"resume", "requireAuth"}) /\ RemoteFailed) =>
        /\ done.kind = "raised"
        /\ done.error.class = "AuthError"
        /\ done.error.code = "SESSION_EXPIRED"
        /\ ReadSession(file) = ReadAbsent

C6_Witness ==
    /\ Settled({"resume"})
    /\ RemoteFailed
    /\ LastThrown \in ResumeRejections
    /\ ReadSession(before).kind = "session"
    /\ done.error.code = "SESSION_EXPIRED"
    /\ file.content = <<>>

\* C7 (as claimed): login has succeeded exactly when the remote call accepted
\* the pair; then it returned, and the store holds, a record with the did,
\* handle and credentials the remote returned; when the remote rejected the
\* pair, login raised invalid-credentials; and whenever it failed the store
\* is as it was before the call.
C7_LoginContract ==
    Settled({"login"}) =>
        /\ done.kind = "returned" <=> outcome.kind = "returned"
        /\ done.kind = "returned" =>
              /\ [identifier |-> call.identifier, password |-> call.password] \in Accounts
              /\ \A k \in DOMAIN AccountData : done.session[k] = AccountData[k]
              /\ ReadSession(file) = [kind |-> "session", session |-> done.session]
        /\ done.kind = "raised" => file = before
        /\ (RemoteFailed /\ LastThrown \in LoginRejections) =>
              /\ done.kind = "raised"
              /\ done.error.class = "AuthError"
              /\ done.error.code = "INVALID_CREDENTIALS"

\* C8: resume() and requireAuth() on an absent store (never written, or
\* cleared) end without a remote call, resume() by returning false and
\* requireAuth() by raising not-authenticated; a remote call is awaited only
\* for a session that was read.
C8_AbsentMeansNoNetwork ==
    /\ (Settled({"resume", "requireAuth"}) /\ ReadSession(before) = ReadAbsent) =>
          /\ netCalls = 0
          /\ rpc = "idle"
          /\ trace = <<>>
          /\ done.op = "resume" => done = Returned("resume", NoSession, FALSE)
          /\ done.op = "requireAuth" =>
                /\ done.kind = "raised"
                /\ done.error.class = "AuthError"
                /\ done.error.code = "NOT_AUTHENTICATED"
    /\ apc \in {"resume", "requireAuth"} => ReadSession(before).kind = "session"

C8_Witness ==
    /\ Settled({"requireAuth"})
    /\ before.exists
    /\ before.content = <<>>
    /\ done.error.code = "NOT_AUTHENTICATED"
    /\ netCalls = 0

\* C9 (as claimed): after logout(), called on the manager or through the
\* logout command, read() reports absent, whatever the store was before.
C9_LogoutClears ==
    Settled({"logout", "logoutCommand"}) => ReadSession(file) = ReadAbsent

\* C10: after write(r), read() returns a record equal to r in each of its
\* five fields, whatever the file held before.
C10_RoundTrip ==
    (Settled({"write"}) /\ done.kind = "returned") =>
        LET read == ReadSession(file) IN
        /\ read.kind = "session"
        /\ \A i \in DOMAIN SessionKeys :
              read.session[SessionKeys[i]] = done.session[SessionKeys[i]]
        /\ DOMAIN read.session = {SessionKeys[i] : i \in DOMAIN SessionKeys}

C10_Witness ==
    /\ Settled({"write"})
    /\ done.kind = "returned"
    /\ done.session.accessJwt = <<34, 92, 233>>
    /\ ReadSession(before).kind = "session"
    /\ ReadSession(before).session # done.session
    /\ ReadSession(file).session = done.session

\* C11 (as claimed): a session file that is not empty and differs in a byte
\* from what writeSession produces is never read as a record.
C11_TamperFailsClosed ==
    (file.exists /\ ~IsBlank(file.content) /\ ~Pristine(file.content)) =>
        ReadSession(file).kind = "error"

\* C12 (as claimed): clear() returns without raising, a second clear() would
\* change nothing, and read() after it reports absent, whether or not a
\* record was there.
C12_ClearIdempotent ==
    Settled({"clear"}) =>
        /\ done.kind = "returned"
        /\ ClearSession(file) = file
        /\ ReadSession(file) = ReadAbsent

\* C13 (as claimed): after a process died inside write(r) over a readable
\* store, read() gives what it gave before the write (the previous record,
\* or absent) or the record r.
C13_CrashLeavesOldOrNew ==
    (Settled({"write"}) /\ done.kind = "crashed" /\ ReadSession(before).kind # "error") =>
        \/ ReadSession(file) = ReadSession(before)
        \/ ReadSession(file) = [kind |-> "session", session |-> done.session]

\* C14 (as claimed): after write() and after clear() the session file, when
\* there is one, has owner-only permissions and read() is not rejected.
C14_RewriteRestoresPermissions ==
    (Settled({"write", "clear"}) /\ done.kind = "returned" /\ file.exists) =>
        /\ file.mode = OwnerOnlyMode
        /\ ReadSession(file).kind # "error"

\* The probes and the refreshSession calls of the operation that has ended.
StepsOf(kind) == SelectSeq(steps, LAMBDA st : st.kind = kind)

\* A probe of the operation was rejected with status 401 or ExpiredToken.
ProbeRejected ==
    \E i \in DOMAIN steps :
        /\ steps[i].kind = "probe" /\ ~steps[i].ok
        /\ (steps[i].error.status = 401 \/ Includes(steps[i].error.message, "ExpiredToken"))

\* C22: validateSession() makes at most one probe; it calls refreshSession()
\* once if that probe was rejected with status 401 or ExpiredToken and never
\* otherwise; a refresh that fails gives invalid; and with no session
\* attached to the client it gives invalid without any remote call.
C22_ValidateNeverLoops ==
    Settled({"validate"}) =>
        /\ netCalls <= 1
        /\ Len(StepsOf("probe")) = netCalls
        /\ Len(StepsOf("refresh")) = (IF ProbeRejected THEN 1 ELSE 0)
        /\ (\E i \in DOMAIN steps : steps[i].kind = "refresh" /\ ~steps[i].ok) => ~done.flag
        /\ ~hasSession => (netCalls = 0 /\ ~done.flag)

\* A validateSession() whose probe was rejected and whose one refresh
\* failed has reported invalid.
C22_Witness ==
    /\ Settled({"validate"})
    /\ ProbeRejected
    /\ Len(StepsOf("refresh")) = 1
    /\ ~StepsOf("refresh")[1].ok
    /\ ~done.flag

\* C23 (as claimed): a refreshSession() that fails has cleared the store
\* and raises session-expired; and when the probe of validateSession() is
\* rejected with ExpiredToken (the client library's token exchange has
\* failed) the store is cleared and the session is not reported valid.
C23_RefreshFailureClears ==
    /\ (Settled({"refresh"}) /\ done.kind = "raised") =>
          (done.error = SessionExpired /\ ReadSession(file).kind = "absent")
    /\ (Settled({"validate"})
          /\ \E i \in DOMAIN steps : Includes(steps[i].error.message, "ExpiredToken")) =>
          (ReadSession(file).kind = "absent" /\ ~done.flag)

\* The operations of the session lifecycle.
LifecycleOps == {"login", "resume", "requireAuth", "validate", "refresh", "logout"}

\* C24 (as claimed): whatever a lifecycle operation raises is a classified
\* error.
C24_FailuresAreClassified ==
    (Settled(LifecycleOps) /\ done.kind = "raised") => IsClassified(done.error)

\* A remote call of the operation that has ended succeeded.
RemoteSucceeded ==
    \/ rpc = "done" /\ outcome.kind = "returned"
    \/ \E i \in DOMAIN steps : steps[i].kind = "probe" /\ steps[i].ok

\* C25 (as claimed): a lifecycle operation none of whose remote calls
\* succeeded leaves the session file as it was, or cleared.
C25_WritesFollowRemoteSuccess ==
    (Settled(LifecycleOps) /\ ~RemoteSucceeded) =>
        (file = before \/ file = ClearSession(before))

\* C26 (as claimed): the remote calls of a resume go to the origin that the
\* login which wrote the stored session authenticated against.
C26_ResumeUsesLoginOrigin ==
    (apc \in {"resume", "requireAuth"} /\ netCalls > 0 /\ origin # NoOrigin) =>
        call.service = origin

\* C28 (as claimed): validateSession() reports valid only if its probe
\* succeeded.
C28_ValidOnlyOnRemoteSuccess ==
    (Settled({"validate"}) /\ done.flag) => RemoteSucceeded

(***************************************************************************)
(* The classifier's claims.                                                *)
(***************************************************************************)
\* The class and code of a classified error.
KindOf(x) == <<x.class, x.code>>

\* The kinds the classifier documents, the generic one last.
DocumentedKinds ==
    { <<"NetworkError", "DNS_LOOKUP_FAILED">>, <<"NetworkError", "CONNECTION_REFUSED">>,
      <<"NetworkError", "TIMEOUT">>, <<"NetworkError", "SOCKET_HANG_UP">>,
      <<"NetworkError", "CONNECTION_FAILED">>, <<"AuthError", "SESSION_EXPIRED">>,
      <<"AuthError", "INVALID_CREDENTIALS">>, <<"RateLimitError", "RATE_LIMIT_EXCEEDED">>,
      <<"NotFoundError", "NOT_FOUND">>, <<"ValidationError", "INVALID_REQUEST">>,
      <<"BskyError", "">> }

\* C18 (as claimed): whatever the raw input, fromApiError returns a
\* classified error of a documented kind, and the generic one keeps the
\* message of the input.
C18_ClassifierTotal ==
    classified # NoError =>
        /\ IsClassified(classified)
        /\ KindOf(classified) \in DocumentedKinds
        /\ (classified.class = "BskyError" /\ raw.message # <<>>) =>
              classified.message = raw.message

\* The kind rule 1 gives a known network-stack code, and rule 2 a recognised
\* HTTP status.
KindByCode ==
    [ENOTFOUND |-> <<"NetworkError", "DNS_LOOKUP_FAILED">>,
     ECONNREFUSED |-> <<"NetworkError", "CONNECTION_REFUSED">>,
     ETIMEDOUT |-> <<"NetworkError", "TIMEOUT">>,
     ECONNRESET |-> <<"NetworkError", "SOCKET_HANG_UP">>]

KindByStatus(status) ==
    IF status = 401 THEN <<"AuthError", "SESSION_EXPIRED">>
    ELSE IF status = 429 THEN <<"RateLimitError", "RATE_LIMIT_EXCEEDED">>
    ELSE IF status = 404 THEN <<"NotFoundError", "NOT_FOUND">>
    ELSE <<"ValidationError", "INVALID_REQUEST">>

\* C19 (as claimed): a known network code decides the kind; failing that a
\* recognised status does, whatever the message; the message text is read
\* only when neither is there; anything else is generic.
C19_PriorityOrder ==
    (classified # NoError /\ raw.shape = "object") =>
        IF raw.code \in DOMAIN KindByCode
        THEN KindOf(classified) = KindByCode[raw.code]
        ELSE IF StatusOf(raw) \in {401, 429, 404, 400}
        THEN KindOf(classified) = KindByStatus(StatusOf(raw))
        ELSE IF Includes(raw.message, "socket hang up")
        THEN KindOf(classified) = <<"NetworkError", "SOCKET_HANG_UP">>
        ELSE IF Includes(raw.message, "Invalid identifier or password")
        THEN KindOf(classified) = <<"AuthError", "INVALID_CREDENTIALS">>
        ELSE IF Includes(raw.message, "ExpiredToken")
        THEN KindOf(classified) = <<"AuthError", "SESSION_EXPIRED">>
        ELSE IF Includes(raw.message, "Network")
        THEN KindOf(classified) = <<"NetworkError", "CONNECTION_FAILED">>
        ELSE KindOf(classified) = <<"BskyError", "">>

\* C20 (as claimed): the retry decision for a raw error is the one every raw
\* error of the same classified kind gets, and an error that is retried is
\* classified as a network failure or a rate limit.
C20_DecisionFollowsClassification ==
    (classified # NoError /\ decision # "none" /\ raw.shape = "object") =>
        /\ \A other \in RawInputs :
              (other.shape = "object" /\ KindOf(FromApiError(other)) = KindOf(classified)) =>
                  (IsRetryableError(other, DEFAULT_OPTIONS.retryableErrors)
                      <=> decision = "retry")
        /\ decision = "retry" => classified.class \in {"NetworkError", "RateLimitError"}

\* The eight kinds that have an exit code of their own, by one error each.
KindRepresentatives ==
    { Classified("AuthError", <<>>, "INVALID_CREDENTIALS", 0, <<>>),
      Classified("AuthError", <<>>, "SESSION_EXPIRED", 0, <<>>),
      Classified("AuthError", <<>>, "NOT_AUTHENTICATED", 0, <<>>),
      Classified("NetworkError", <<>>, "", 0, <<>>),
      Classified("RateLimitError", <<>>, "", 0, <<>>),
      Classified("ValidationError", <<>>, "", 0, <<>>),
      Classified("NotFoundError", <<>>, "", 0, <<>>),
      Classified("BskyError", <<>>, "", 0, <<>>) }

\* Which of the eight an error belongs to.
ExitKind(x) ==
    IF x.class = "AuthError"
         /\ x.code \in {"INVALID_CREDENTIALS", "SESSION_EXPIRED", "NOT_AUTHENTICATED"}
    THEN x.code
    ELSE IF x.class \in {"NetworkError", "RateLimitError", "ValidationError", "NotFoundError"}
    THEN x.class
    ELSE "catch-all"

\* C21 (as claimed): the exit code of a classified error is the code of its
\* kind, and no other of the eight kinds has that code.
C21_ExitCodesDistinct ==
    (exitCode # 0 /\ IsClassified(classified)) =>
        \A other \in KindRepresentatives :
            (ExitKind(other) = ExitKind(classified)) <=> (GetExitCode(other) = exitCode)

\* C27 (as claimed): classifying a classified error again gives the same
\* class and code, and for a rate limit the same wait.
C27_ReclassificationStable ==
    (reclassified # NoError /\ IsClassified(classified)) =>
        /\ KindOf(reclassified) = KindOf(classified)
        /\ reclassified.retryAfter = classified.retryAfter

(***************************************************************************)
(* The entry point's and the chat limiter's claims.                        *)
(***************************************************************************)
\* C29 (as claimed): in a process started with --debug every reading of the
\* flag finds it set, and every error is printed in debug form.
C29_DebugFlagSetBeforeUse ==
    argv.debug =>
        \A i \in DOMAIN rendered :
            /\ rendered[i].debug
            /\ rendered[i].by \in {"handler", "main"} => rendered[i].output.form = "debug"

\* The calls admitted before call i and within the window that ends at it.
AdmittedBefore(i) ==
    { j \in 1..(i - 1) : /\ chatTrace[j].admitted
                         /\ chatTrace[j].at > chatTrace[i].at - WindowMs }

\* C30: no half-open interval of windowMs holds more than maxRequests
\* admitted calls; a call made when maxRequests calls were admitted within
\* the window before it is rejected with RATE_LIMIT_EXCEEDED and a wait of at
\* least one second, and any other call is admitted; and the limiter's
\* record holds the admitted calls of the last window, no rejected one.
C30_SlidingWindowLimit ==
    /\ \A i \in DOMAIN chatTrace :
          chatTrace[i].admitted =>
              Cardinality({ j \in DOMAIN chatTrace :
                              /\ chatTrace[j].admitted
                              /\ chatTrace[j].at >= chatTrace[i].at
                              /\ chatTrace[j].at < chatTrace[i].at + WindowMs }) <= MaxRequests
    /\ \A i \in DOMAIN chatTrace :
          IF Cardinality(AdmittedBefore(i)) >= MaxRequests
          THEN /\ ~chatTrace[i].admitted
               /\ chatTrace[i].code = "RATE_LIMIT_EXCEEDED"
               /\ chatTrace[i].waitSeconds >= 1
          ELSE chatTrace[i].admitted
    /\ chatTrace # <<>> =>
          LET last == Len(chatTrace)
              counted == AdmittedBefore(last) \cup
                           (IF chatTrace[last].admitted THEN {last} ELSE {})
          IN  /\ Len(requests) = Cardinality(counted)
              /\ \A k \in DOMAIN requests : \E j \in counted : chatTrace[j].at = requests[k]

\* A call in the last millisecond of a full window has been rejected with a
\* wait of one second, and a call after the window has been admitted.
C30_Witness ==
    /\ chatTrace # <<>>
    /\ \E i \in DOMAIN chatTrace :
          /\ ~chatTrace[i].admitted
          /\ chatTrace[i].at = WindowMs - 1
          /\ chatTrace[i].waitSeconds = 1
    /\ chatTrace[Len(chatTrace)].admitted
    /\ chatTrace[Len(chatTrace)].at = WindowMs

====
